---- MODULE Spec2Model ----
(***************************************************************************)
(* The three orthographic globe drivers of the repository                  *)
(* (VisualizePopularity.py, VisualizeDensity.py, VisualizeChange.py):      *)
(* loading and filtering the park list, normalising the metric, colouring, *)
(* rasterising the base map, drawing the park markers, saving the image.   *)
(*                                                                         *)
(* Arithmetic.  The code computes in floating point; the model computes    *)
(* exactly over rationals.  An angle is one of the nominal degrees of      *)
(* Angles, whose cosine and sine are exact fifths (the 3-4-5 triangle), so *)
(* a unit vector is a triple of integers over 25 and a rotated vector a    *)
(* triple of integers over a common denominator.  A normalised value t is  *)
(* a pair <<n, d>> with d > 0 standing for n/d.  Pixel positions of the    *)
(* overlay are kept in fixed point, FixedPoint units per pixel.            *)
(***************************************************************************)
EXTENDS Integers, Sequences, FiniteSets, TLC

\* ---------------------------------------------------------------- bounds
MaxParks == 3
MaxOver == 5
IMAGE_SIZE_PX == 4
PARK_CIRCLE_RADIUS_KM == 3000
FixedPoint == 100
\* MAX_RETRIES = 99 in the source; the retry loop is the same for any count.
MAX_RETRIES == 3

\* ------------------------------------------------------ program constants
SUPER_SAMPLING_FACTOR == 2
EARTH_RADIUS_KM == 6371
RETRY_DELAY_SECONDS == 10

LAND_COLOR == <<78, 97, 65>>
OCEAN_COLOR == <<130, 160, 194>>
SPACE_COLOR == <<10, 15, 20>>

TARGET_YEAR_VISITORS == "2010"
TARGET_YEAR_DENSITY == "2020"
YEAR_A == "2019"
YEAR_B == "2020"

\* Python's None; an optional number is None or the one-element tuple <<a>>.
None == << >>

SUPER_SAMPLED_SIZE == IMAGE_SIZE_PX * SUPER_SAMPLING_FACTOR

\* ------------------------------------------------------------ arithmetic
Abs(x) == IF x < 0 THEN -x ELSE x

\* Python's int() on a float n/d (d > 0): truncation toward zero.
Trunc(n, d) == IF n >= 0 THEN n \div d ELSE -((-n) \div d)

RECURSIVE GCD(_, _)
GCD(a, b) == IF b = 0 THEN a ELSE GCD(b, a % b)

SeqMax(s) == CHOOSE x \in {s[i] : i \in DOMAIN s} : \A i \in DOMAIN s : s[i] <= x
SeqMin(s) == CHOOSE x \in {s[i] : i \in DOMAIN s} : \A i \in DOMAIN s : x <= s[i]

\* ------------------------------------------------------------ trigonometry
Angles == {-180, -143, -127, -90, -53, -37, 0, 37, 53, 90, 127, 143, 180}

\* 5 * cos and 5 * sin of a nominal degree (37 is atan(3/4), 53 is atan(4/3)).
Cos5(a) ==
    CASE Abs(a) = 0 -> 5
      [] Abs(a) = 37 -> 4
      [] Abs(a) = 53 -> 3
      [] Abs(a) = 90 -> 0
      [] Abs(a) = 127 -> -3
      [] Abs(a) = 143 -> -4
      [] Abs(a) = 180 -> -5

SinPos5(a) ==
    CASE a = 0 -> 0
      [] a = 37 -> 3
      [] a = 53 -> 4
      [] a = 90 -> 5
      [] a = 127 -> 4
      [] a = 143 -> 3
      [] a = 180 -> 0

Sin5(a) == IF a < 0 THEN -SinPos5(-a) ELSE SinPos5(a)

\* A unit vector is <<x, y, z>> over Unit.
Unit == 5 * 5

latlon_to_vec(lat, lon) ==
    << Cos5(lat) * Cos5(lon), Cos5(lat) * Sin5(lon), 5 * Sin5(lat) >>

Cross(a, b) ==
    << a[2] * b[3] - a[3] * b[2],
       a[3] * b[1] - a[1] * b[3],
       a[1] * b[2] - a[2] * b[1] >>

Dot(a, b) == a[1] * b[1] + a[2] * b[2] + a[3] * b[3]

\* A rational vector in lowest terms: [x, y, z, den], den > 0.
Reduced(x, y, z, den) ==
    LET g == GCD(GCD(GCD(Abs(x), Abs(y)), Abs(z)), den)
    IN  [x |-> x \div g, y |-> y \div g, z |-> z \div g, den |-> den \div g]

\* R.align_vectors([[0, 0, 1]], [target_vec]) applied to p: the minimal
\* rotation that takes the unit vector t onto the viewing axis (0, 0, 1),
\*   R p = c p + v x p + v (v . p) / (1 + c),  v = t x (0,0,1),  c = t . (0,0,1)
\* t and p over Unit, the result over Unit * Unit * (Unit + t[3]).
\* Undefined for t = (0, 0, -1): see r_flip.
r_aimMutant(t, p) ==
    LET v == << -t[2], t[1], 0 >>
        vxp == Cross(v, p)
        vp == Dot(v, p)
        k == Unit + t[3]
    IN  [ x |-> k * (t[3] * p[1] + vxp[1]) + v[1] * vp,
          y |-> k * (t[3] * p[2] + vxp[2]) + v[2] * vp,
          z |-> k * (t[3] * p[3] + vxp[3]) + v[3] * vp,
          den |-> Unit * Unit * k ]
r_aim(t, p) ==
    LET v == << t[2], -t[1], 0 >>
        vxp == Cross(v, p)
        vp == Dot(v, p)
        k == Unit + t[3]
    IN  [ x |-> k * (t[3] * p[1] + vxp[1]) + v[1] * vp,
          y |-> k * (t[3] * p[2] + vxp[2]) + v[2] * vp,
          z |-> k * (t[3] * p[3] + vxp[3]) + v[3] * vp,
          den |-> Unit * Unit * k ]

\* R.from_euler('z', -CAMERA_ROLL_DEG, degrees=True) applied to q.
r_roll(roll, q) ==
    [ x |-> Cos5(-roll) * q.x - Sin5(-roll) * q.y,
      y |-> Sin5(-roll) * q.x + Cos5(-roll) * q.y,
      z |-> 5 * q.z,
      den |-> 5 * q.den ]

\* align_vectors for a camera at latitude -90, where target_vec is (0, 0, -1)
\* up to the 6.1e-17 that np.cos leaves in x and y: the half turn about the
\* axis target_vec x (0, 0, 1), which is along (sin lon, -cos lon, 0).
\*   R p = 2 a (a . p) - p;  p over Unit, the result over Unit * Unit.
r_flip(lon, p) ==
    LET a == << Sin5(lon), -Cos5(lon), 0 >>
        ap == Dot(a, p)
    IN  [ x |-> 2 * a[1] * ap - Unit * p[1],
          y |-> 2 * a[2] * ap - Unit * p[2],
          z |-> 2 * a[3] * ap - Unit * p[3],
          den |-> Unit * Unit ]

\* rotation = r_roll * r_aim; rotation.apply(park_vec)
rotation_apply(cam, p) ==
    LET target_vec == latlon_to_vec(cam.lat, cam.lon)
        aimed == IF target_vec[3] = -Unit
                 THEN r_flip(cam.lon, p)
                 ELSE r_aim(target_vec, p)
        q == r_roll(cam.roll, aimed)
    IN  Reduced(q.x, q.y, q.z, q.den)

\* rotation.inv() is r_aim.inv() * r_roll.inv().  The inverse of the roll
\* turns back by CAMERA_ROLL_DEG about z; q is a vector [x, y, z, den].
r_roll_invMutant(roll, q) ==
    [ x |-> Cos5(-roll) * q.x - Sin5(-roll) * q.y,
      y |-> Sin5(-roll) * q.x + Cos5(-roll) * q.y,
      z |-> 5 * q.z,
      den |-> 5 * q.den ]
r_roll_inv(roll, q) ==
    [ x |-> Cos5(roll) * q.x - Sin5(roll) * q.y,
      y |-> Sin5(roll) * q.x + Cos5(roll) * q.y,
      z |-> 5 * q.z,
      den |-> 5 * q.den ]

\* The inverse of r_aim turns by the same angle about the opposite axis:
\*   R^-1 q = c q - v x q + v (v . q) / (1 + c)
r_aim_inv(t, q) ==
    LET v == << t[2], -t[1], 0 >>
        qv == << q.x, q.y, q.z >>
        vxq == Cross(v, qv)
        vq == Dot(v, qv)
        k == Unit + t[3]
    IN  [ x |-> k * (t[3] * q.x - vxq[1]) + v[1] * vq,
          y |-> k * (t[3] * q.y - vxq[2]) + v[2] * vq,
          z |-> k * (t[3] * q.z - vxq[3]) + v[3] * vq,
          den |-> Unit * k * q.den ]

\* A half turn is its own inverse.
r_flip_inv(lon, q) ==
    LET a == << Sin5(lon), -Cos5(lon), 0 >>
        aq == Dot(a, << q.x, q.y, q.z >>)
    IN  [ x |-> 2 * a[1] * aq - Unit * q.x,
          y |-> 2 * a[2] * aq - Unit * q.y,
          z |-> 2 * a[3] * aq - Unit * q.z,
          den |-> Unit * q.den ]

\* rotation.inv().apply(points), as the rasterizer calls it.
rotation_inv_apply(cam, q) ==
    LET target_vec == latlon_to_vec(cam.lat, cam.lon)
        u == r_roll_inv(cam.roll, q)
        unrolled == Reduced(u.x, u.y, u.z, u.den)
        w == IF target_vec[3] = -Unit
             THEN r_flip_inv(cam.lon, unrolled)
             ELSE r_aim_inv(target_vec, unrolled)
    IN  Reduced(w.x, w.y, w.z, w.den)

\* --------------------------------------------------------- colour scales
\* t = <<n, d>>, d > 0.

\* get_visitor_color: t <= 0.7 is 10 n <= 7 d.
get_visitor_colorMutant(t) ==
    IF 10 * t[1] <= 7 * t[2]
    THEN << 255, Trunc(255 * (7 * t[2] - 10 * t[1]), 7 * t[2]), 0 >>
    ELSE << Trunc(255 * 7 * t[2] - 116 * (10 * t[1] - 7 * t[2]), 7 * t[2]), 0, 0 >>
get_visitor_color(t) ==
    IF 10 * t[1] <= 7 * t[2]
    THEN << 255, Trunc(255 * (7 * t[2] - 10 * t[1]), 7 * t[2]), 0 >>
    ELSE << Trunc(255 * 3 * t[2] - 116 * (10 * t[1] - 7 * t[2]), 3 * t[2]), 0, 0 >>

\* get_density_color: t is clamped to [0, 1] first.
get_density_colorMutant(t) ==
    << Trunc(46 * t[1], t[2]),
       Trunc(102 * t[2] - 94 * t[1], t[2]),
       Trunc(255 * t[2] - 171 * t[1], t[2]) >>
get_density_color(t) ==
    LET c == IF t[1] < 0 THEN <<0, 1>>
             ELSE IF t[1] > t[2] THEN <<1, 1>> ELSE t
    IN  << Trunc(46 * c[1], c[2]),
           Trunc(102 * c[2] - 94 * c[1], c[2]),
           Trunc(255 * c[2] - 171 * c[1], c[2]) >>

\* get_change_color, the branch t <= 0.5: factor = 2 t.
negative_side(t) ==
    << Trunc(204 * t[2] + 28 * 2 * t[1], t[2]),
       Trunc(232 * 2 * t[1], t[2]),
       Trunc(232 * 2 * t[1], t[2]) >>

\* get_change_color, the branch t > 0.5: factor = 2 (t - 0.5).
positive_sideMutant(t) ==
    LET f == 2 * t[1] - t[2]
    IN  << Trunc(204 * t[2] - 97 * f, t[2]),
           Trunc(232 * t[2] - 188 * f, t[2]),
           Trunc(232 * t[2] - 87 * f, t[2]) >>
positive_side(t) ==
    LET f == 2 * t[1] - t[2]
    IN  << Trunc(232 * t[2] - 125 * f, t[2]),
           Trunc(232 * t[2] - 188 * f, t[2]),
           Trunc(232 * t[2] - 87 * f, t[2]) >>

\* get_change_color: t <= 0.5 is 2 n <= d.
get_change_color(t) ==
    IF 2 * t[1] <= t[2] THEN negative_side(t) ELSE positive_side(t)

\* ------------------------------------------------------------- the inputs
Years == {"2010", "2019", "2020"}

\* Records of USNP_data.json as process_park emits them: 'coordinates' is
\* None or a latitude/longitude pair, 'area' is None or a number, and
\* visitor_history is held as the year -> visitors dictionary the drivers
\* build from it.  Visitor counts and areas are chosen so that the cube
\* root of visitors / area is an integer.
ParkPool ==
    { [name |-> "Acadia", coordinates |-> [latitude |-> 0, longitude |-> 0],
       visitor_history |-> ("2010" :> 8) @@ ("2019" :> 8) @@ ("2020" :> 8),
       area |-> <<1>>],
      [name |-> "Badlands", coordinates |-> [latitude |-> 0, longitude |-> -53],
       visitor_history |-> ("2010" :> 64) @@ ("2019" :> 8) @@ ("2020" :> 64),
       area |-> <<1>>],
      [name |-> "Zion", coordinates |-> [latitude |-> 37, longitude |-> -90],
       visitor_history |-> ("2010" :> 8) @@ ("2019" :> 64) @@ ("2020" :> 8),
       area |-> <<8>>],
      [name |-> "Denali", coordinates |-> [latitude |-> 0, longitude |-> 53],
       visitor_history |-> ("2019" :> 0) @@ ("2020" :> 27),
       area |-> None],
      [name |-> "Katmai", coordinates |-> None,
       visitor_history |-> ("2010" :> 8) @@ ("2019" :> 8) @@ ("2020" :> 8),
       area |-> <<1>>],
      [name |-> "Saguaro", coordinates |-> [latitude |-> 0, longitude |-> 180],
       visitor_history |-> ("2010" :> 64) @@ ("2020" :> 8),
       area |-> <<0>>] }

ParkLists == UNION { [1..n -> ParkPool] : n \in 0..MaxParks }

\* Camera settings (PROJECTION_CENTER_LAT, PROJECTION_CENTER_LON,
\* CAMERA_ROLL_DEG, MARGIN_FRACTION = mn / md).
Cameras ==
    { [lat |-> 0, lon |-> 0, roll |-> 0, mn |-> 0, md |-> 1],
      [lat |-> 37, lon |-> -90, roll |-> -37, mn |-> 1, md |-> 20] }

\* What the polygon dataset covers of the view: nothing, or its west half.
Worlds == {"no_polygons", "west_half"}

Drivers == {"popularity", "density", "change"}

\* --------------------------------------------------------------- the canvas
Rows == 0..(SUPER_SAMPLED_SIZE - 1)
Pixels == Rows \X Rows

NoImage == << >>

\* np.linspace(-view_scale, view_scale, SUPER_SAMPLED_SIZE)[i] as the pair
\* <<numerator, denominator>>: -vs + i * 2 vs / (S - 1), vs = md / (md - mn).
\* The y axis is np.linspace(view_scale, -view_scale, S), its negation.
linspace(cam, i) ==
    << cam.md * (2 * i - (SUPER_SAMPLED_SIZE - 1)),
       (cam.md - cam.mn) * (SUPER_SAMPLED_SIZE - 1) >>

\* The mask over a grid of S steps per axis where linspace has S - 1.
on_globe_maskMutant(cam, row, col) ==
    LET n == SUPER_SAMPLED_SIZE - 1
        u == 2 * col - n
        w == n - 2 * row
    IN  cam.md * cam.md * (u * u + w * w)
            <= (cam.md - cam.mn) * (cam.md - cam.mn)
                   * SUPER_SAMPLED_SIZE * SUPER_SAMPLED_SIZE
\* radius_sq <= 1.0 for the pixel at (row, col): x = linspace(-view_scale,
\* view_scale, S)[col], y = linspace(view_scale, -view_scale, S)[row],
\* view_scale = md / (md - mn).
on_globe_mask(cam, row, col) ==
    LET n == SUPER_SAMPLED_SIZE - 1
        u == 2 * col - n
        w == n - 2 * row
    IN  cam.md * cam.md * (u * u + w * w)
            <= (cam.md - cam.mn) * (cam.md - cam.mn) * n * n

\* The spatial-index query and the containment test of one pixel.
IsLand(w, row, col) == w = "west_half" /\ 2 * col < SUPER_SAMPLED_SIZE

\* np.full(..., SPACE_COLOR); output_image_array[on_globe_mask] = point_colors
BaseMap(cam, w) ==
    [ p \in Pixels |->
        IF on_globe_mask(cam, p[1], p[2])
        THEN IF IsLand(w, p[1], p[2]) THEN LAND_COLOR ELSE OCEAN_COLOR
        ELSE SPACE_COLOR ]

\* ------------------------------------------------------------- the overlay
\* park_pixel_radius, in fixed point.
park_pixel_radius(cam) ==
    (PARK_CIRCLE_RADIUS_KM * FixedPoint * SUPER_SAMPLED_SIZE * (cam.md - cam.mn))
        \div (EARTH_RADIUS_KM * 2 * cam.md)

\* px = (x_proj / view_scale + 1) * 0.5 * SUPER_SAMPLED_SIZE, in fixed point;
\* v is one coordinate of the rotated vector over den.
PixelCoord(cam, v, den) ==
    LET vfp == Trunc(v * FixedPoint, den)
    IN  (SUPER_SAMPLED_SIZE * (vfp * (cam.md - cam.mn) + FixedPoint * cam.md))
            \div (2 * cam.md)

\* if rotated_park_vec[2] > 0.0
IsVisibleMutant(rv) == rv.z >= 0
IsVisible(rv) == rv.z > 0

\* What floating point makes of a z that is exactly 0: np.cos(np.deg2rad(90))
\* is 6.1e-17 and not 0, and the products of the rotation round, so the z the
\* code tests is a residue of either sign, or 0.  Residues are the signs the
\* test can meet; Computed(rv, e) is rv with the sign e in place of an exact
\* 0 in z (x and y, off by as little, are left exact).
Residues == {-1, 0, 1}
Computed(rv, e) == IF rv.z = 0 THEN [rv EXCEPT !.z = e] ELSE rv

\* draw.ellipse([(px - r, py - r), (px + r, py + r)], fill=...): the library
\* truncates the box to integers and fills the pixels of the canvas inside the
\* ellipse inscribed in the box (x0, y0)..(x1, y1), its edges included.
EllipsePixels(px, py, r) ==
    LET x0 == Trunc(px - r, FixedPoint)
        x1 == Trunc(px + r, FixedPoint)
        y0 == Trunc(py - r, FixedPoint)
        y1 == Trunc(py + r, FixedPoint)
        w == x1 - x0
        h == y1 - y0
    IN  { p \in Pixels :
            /\ y0 <= p[1] /\ p[1] <= y1
            /\ x0 <= p[2] /\ p[2] <= x1
            /\ h * h * (2 * p[2] - x0 - x1) * (2 * p[2] - x0 - x1)
                 + w * w * (2 * p[1] - y0 - y1) * (2 * p[1] - y0 - y1)
                 <= w * w * h * h }

\* draw.ellipse(..., fill=park['color']) on an image: the pixels of the
\* ellipse take the fill, whatever they held.
ellipseMutant(image, pixels, fill) ==
    [ p \in Pixels |->
        IF p \in pixels /\ image[p] \in {LAND_COLOR, OCEAN_COLOR, SPACE_COLOR}
        THEN fill ELSE image[p] ]
ellipse(image, pixels, fill) ==
    [ p \in Pixels |-> IF p \in pixels THEN fill ELSE image[p] ]

\* img = base_map_image.copy(): a new image equal to the base map, whatever
\* canvas the call before drew on.
copyMutant(base_map, canvas) == IF canvas = NoImage THEN base_map ELSE canvas
copy(base_map, canvas) == base_map

\* The pixels one park's marker covers under a camera.
MarkerPixels(cam, park) ==
    LET rv == rotation_apply(cam, latlon_to_vec(park.lat, park.lon))
    IN  EllipsePixels(PixelCoord(cam, rv.x, rv.den),
                      PixelCoord(cam, -rv.y, rv.den),
                      park_pixel_radius(cam))

\* ---------------------------------------------------------------- state
VARIABLES
    driver,             \* which of the three programs runs
    geojson_exists,     \* INPUT_GEOJSON_PATH.exists()
    park_file,          \* "missing", "invalid" or "ok": INPUT_PARK_JSON_PATH
    all_parks_data,     \* the 'parks' list of the file
    camera,             \* the projection settings
    world,              \* the polygon dataset
    pc,                 \* position in main()
    exception,          \* the uncaught exception that ended the run, or "none"
    printed,            \* the messages printed so far
    saved,              \* the images written so far
    rasterized,         \* the base-map pixels have been classified
    parks_for_analysis,
    parks_abs_colors,
    parks_pct_colors,
    base_map_image,
    img,                \* the image the markers are drawn on
    overlay,            \* the list the drawing loop runs over
    k,                  \* index of the next park of overlay to draw
    visible_parks,
    variant,            \* the map being drawn
    rounding,           \* the sign floating point gives a z that is exactly 0
    call,               \* a function called on its own: its name and arguments
    result,             \* what the call returned
    wikidata,           \* the entity the Wikidata API holds for the park
    get                 \* the running call of get_wikidata_entity

inputs == << driver, geojson_exists, park_file, all_parks_data, camera, world >>
lists == << parks_for_analysis, parks_abs_colors, parks_pct_colors >>
drawing == << base_map_image, img, overlay, k, visible_parks, variant, rasterized,
             rounding >>
function == << call, result >>
fetching == << wikidata, get >>
vars == << inputs, pc, exception, printed, saved, lists, drawing, function, fetching >>

\* No call of get_wikidata_entity has been made.
NoCall == [entity |-> "none", attempt |-> 0, log |-> << >>, returned |-> FALSE,
           value |-> None]

Init ==
    /\ driver \in Drivers
    /\ geojson_exists \in BOOLEAN
    /\ park_file \in {"missing", "invalid", "ok"}
    /\ all_parks_data \in IF park_file = "ok" THEN ParkLists ELSE { << >> }
    /\ camera \in Cameras
    /\ world \in Worlds
    /\ pc = "start"
    /\ exception = "none"
    /\ printed = {}
    /\ saved = {}
    /\ rasterized = FALSE
    /\ parks_for_analysis = << >>
    /\ parks_abs_colors = << >>
    /\ parks_pct_colors = << >>
    /\ base_map_image = NoImage
    /\ img = NoImage
    /\ overlay = << >>
    /\ k = 1
    /\ visible_parks = 0
    /\ variant = "none"
    /\ rounding = 0
    /\ call = [fn |-> "none", stage |-> "idle"]
    /\ result = None
    /\ wikidata = None
    /\ get = NoCall

\* ------------------------------------------------- validation and loading
\* if not INPUT_GEOJSON_PATH.exists(): print error; return
CheckGeojson ==
    /\ pc = "start"
    /\ IF geojson_exists
       THEN pc' = "load" /\ printed' = printed
       ELSE pc' = "done" /\ printed' = printed \cup {"ERROR: Input GeoJSON file not found"}
    /\ UNCHANGED << inputs, function, fetching, exception, saved, lists, drawing >>

\* all_parks_data = load_park_data(...); if not all_parks_data: return
LoadParkData ==
    /\ pc = "load"
    /\ CASE park_file = "missing" ->
              /\ printed' = printed \cup {"ERROR: Park data file not found"}
              /\ pc' = "done"
         [] park_file = "invalid" ->
              /\ printed' = printed \cup {"ERROR: File is not a valid JSON or is missing the 'parks' key"}
              /\ pc' = "done"
         [] OTHER ->
              /\ printed' = printed
              /\ pc' = IF all_parks_data = << >> THEN "done" ELSE "filter"
    /\ UNCHANGED << inputs, function, fetching, exception, saved, lists, drawing >>

\* -------------------------------------------------------------- filtering
\* (visitors / area) ** (1/3), for the inputs of ParkPool an integer (and
\* rounded down to one for any other input).
CubeRoot(v, a) == CHOOSE r \in 0..v : r * r * r * a <= v /\ v < (r + 1) * (r + 1) * (r + 1) * a

\* area is None or not isinstance(area, (int, float)) or area <= 0
InvalidArea(area) == area = None \/ area[1] <= 0

\* The conditions under which the filtering loop appends a park.
Eligible(d, park) ==
    LET visitor_history == park.visitor_history
    IN  CASE d = "popularity" -> TARGET_YEAR_VISITORS \in DOMAIN visitor_history
          [] d = "density" -> /\ TARGET_YEAR_DENSITY \in DOMAIN visitor_history
                              /\ ~InvalidArea(park.area)
          [] d = "change" -> /\ YEAR_A \in DOMAIN visitor_history
                             /\ YEAR_B \in DOMAIN visitor_history

\* The dictionary the loop appends; park['coordinates']['latitude'] raises
\* TypeError when 'coordinates' is None (see FilterParks).
AnalysisRecord(d, park) ==
    CASE d = "popularity" ->
           [name |-> park.name,
            lat |-> park.coordinates.latitude,
            lon |-> park.coordinates.longitude,
            visitors |-> park.visitor_history[TARGET_YEAR_VISITORS]]
      [] d = "density" ->
           [name |-> park.name,
            lat |-> park.coordinates.latitude,
            lon |-> park.coordinates.longitude,
            density |-> CubeRoot(park.visitor_history[TARGET_YEAR_DENSITY], park.area[1])]
      [] d = "change" ->
           [name |-> park.name,
            lat |-> park.coordinates.latitude,
            lon |-> park.coordinates.longitude,
            visitors_a |-> park.visitor_history[YEAR_A],
            visitors_b |-> park.visitor_history[YEAR_B]]

\* The index of the first park whose append raises, or 0.
FirstRaising(d, parks) ==
    LET bad == { i \in DOMAIN parks : Eligible(d, parks[i]) /\ parks[i].coordinates = None }
    IN  IF bad = {} THEN 0 ELSE CHOOSE i \in bad : \A j \in bad : i <= j

RECURSIVE Appended(_, _)
Appended(d, parks) ==
    IF parks = << >> THEN << >>
    ELSE IF Eligible(d, Head(parks))
         THEN << AnalysisRecord(d, Head(parks)) >> \o Appended(d, Tail(parks))
         ELSE Appended(d, Tail(parks))

\* The filtering loop and the check "if not parks_for_analysis".
FilterParks ==
    /\ pc = "filter"
    /\ LET raising == FirstRaising(driver, all_parks_data)
           looped == IF raising = 0 THEN all_parks_data
                     ELSE SubSeq(all_parks_data, 1, raising - 1)
           kept == Appended(driver, looped)
           excluding == IF \E i \in DOMAIN looped : ~Eligible(driver, looped[i])
                        THEN {"Excluding a park: missing required data"} ELSE {}
       IN  /\ parks_for_analysis' = kept
           /\ IF raising # 0
              THEN /\ exception' = "TypeError"
                   /\ pc' = "crashed"
                   /\ printed' = printed \cup excluding
              ELSE /\ exception' = exception
                   /\ IF kept = << >>
                      THEN /\ pc' = "done"
                           /\ printed' = printed \cup excluding \cup {"ERROR: No parks found with the required data"}
                      ELSE /\ pc' = IF driver = "change" THEN "basemap" ELSE "color"
                           /\ printed' = printed \cup excluding
    /\ UNCHANGED << inputs, function, fetching, saved, parks_abs_colors, parks_pct_colors, drawing >>

\* ------------------------------------------------ normalising and colouring
\* if visitor_range == 0: visitor_range = 1.0   (likewise density_range,
\* max_abs_delta and max_abs_percent)
ZeroGuardMutant(r) == r
ZeroGuard(r) == IF r = 0 THEN 1 ELSE r

Values(parks, field) == [i \in DOMAIN parks |-> parks[i][field]]

\* sorted(densities, reverse=True)[1], for two or more densities: the largest
\* of what is left when one occurrence of the largest is taken out.
SecondLargest(s) ==
    LET top == CHOOSE i \in DOMAIN s : \A j \in DOMAIN s : s[j] <= s[i]
        rest == { j \in DOMAIN s : j # top }
    IN  CHOOSE x \in { s[j] : j \in rest } : \A j \in rest : s[j] <= x

\* Popularity, step 3: the divisor and the colours.
visitor_range(parks) ==
    ZeroGuard(SeqMax(Values(parks, "visitors")) - SeqMin(Values(parks, "visitors")))

\* normalized_visitors = (park['visitors'] - min_visitors) / visitor_range
normalized_visitorsMutant(parks, i) ==
    << parks[i].visitors, visitor_range(parks) >>
normalized_visitors(parks, i) ==
    << parks[i].visitors - SeqMin(Values(parks, "visitors")), visitor_range(parks) >>

VisitorColored(parks) ==
    [i \in DOMAIN parks |->
        [name |-> parks[i].name, lat |-> parks[i].lat, lon |-> parks[i].lon,
         visitors |-> parks[i].visitors,
         color |-> get_visitor_color(normalized_visitors(parks, i))]]

\* Density, step 3: the effective maximum is the second of the sorted list.
density_rangeMutant(parks) ==
    ZeroGuard(SeqMax(Values(parks, "density")) - SeqMin(Values(parks, "density")))
density_range(parks) ==
    ZeroGuard(SecondLargest(Values(parks, "density")) - SeqMin(Values(parks, "density")))

\* if park['density'] == actual_max_density
IsActualMax(parks, i) == parks[i].density = SeqMax(Values(parks, "density"))

\* normalized_density = (park['density'] - min_density) / density_range
normalized_density(parks, i) ==
    << parks[i].density - SeqMin(Values(parks, "density")), density_range(parks) >>

DensityColored(parks) ==
    [i \in DOMAIN parks |->
        [name |-> parks[i].name, lat |-> parks[i].lat, lon |-> parks[i].lon,
         density |-> parks[i].density,
         color |-> IF IsActualMax(parks, i)
                   THEN << 0, 0, 0 >>
                   ELSE get_density_color(normalized_density(parks, i))]]

\* Steps 2 and 3 of the popularity and density drivers.
NormalizeAndColor ==
    /\ pc = "color"
    /\ driver \in {"popularity", "density"}
    /\ IF driver = "density" /\ Len(parks_for_analysis) < 2
       THEN \* sorted(densities, reverse=True)[1] on a list of one element
            /\ exception' = "IndexError"
            /\ pc' = "crashed"
            /\ UNCHANGED parks_for_analysis
       ELSE LET divisor == IF driver = "popularity"
                           THEN visitor_range(parks_for_analysis)
                           ELSE density_range(parks_for_analysis)
            IN  IF divisor = 0
                THEN /\ exception' = "ZeroDivisionError"
                     /\ pc' = "crashed"
                     /\ UNCHANGED parks_for_analysis
                ELSE /\ exception' = exception
                     /\ pc' = "basemap"
                     /\ parks_for_analysis' =
                            IF driver = "popularity"
                            THEN VisitorColored(parks_for_analysis)
                            ELSE DensityColored(parks_for_analysis)
    /\ UNCHANGED << inputs, function, fetching, printed, saved, parks_abs_colors, parks_pct_colors, drawing >>

\* -------------------------------------------------------------- base map
\* Steps 4 to 6 of main(): the rotation, the ray-casting loop, the image.
\* The popularity and density drivers draw straight on it.
GenerateBaseMap ==
    /\ pc = "basemap"
    /\ rasterized' = TRUE
    /\ rounding' \in Residues
    /\ IF driver = "change"
       THEN /\ base_map_image' = BaseMap(camera, world)
            /\ pc' = "absolute"
            /\ UNCHANGED << img, overlay, k, visible_parks, variant >>
       ELSE /\ img' = BaseMap(camera, world)
            /\ overlay' = parks_for_analysis
            /\ k' = 1
            /\ visible_parks' = 0
            /\ variant' = IF driver = "popularity" THEN "visitors" ELSE "density"
            /\ pc' = "draw"
            /\ UNCHANGED base_map_image
    /\ UNCHANGED << inputs, function, fetching, exception, printed, saved, lists >>

\* ----------------------------------------------------------- drawing loop
\* One iteration of "for park in parks_for_analysis" (parks_with_colors in
\* generate_map).
DrawPark ==
    /\ pc = "draw"
    /\ k <= Len(overlay)
    /\ LET park == overlay[k]
           rotated_park_vec ==
               Computed(rotation_apply(camera, latlon_to_vec(park.lat, park.lon)), rounding)
       IN  IF IsVisible(rotated_park_vec)
           THEN /\ visible_parks' = visible_parks + 1
                /\ img' = ellipse(img, MarkerPixels(camera, park), park.color)
           ELSE UNCHANGED << visible_parks, img >>
    /\ k' = k + 1
    /\ UNCHANGED << inputs, function, fetching, pc, exception, printed, saved, lists,
                    base_map_image, overlay, variant, rasterized, rounding >>

\* After the loop: resize and img.save(...); the change driver goes on to
\* the percent map after the absolute one.
SaveImage ==
    /\ pc = "draw"
    /\ k > Len(overlay)
    /\ saved' = saved \cup {variant}
    /\ pc' = IF driver = "change" /\ variant = "absolute" THEN "percent" ELSE "done"
    /\ UNCHANGED << inputs, function, fetching, exception, printed, lists, drawing >>

\* ------------------------------------------------------ the change driver
\* park['delta'] = park['visitors_b'] - park['visitors_a'], on the shared list
WithDelta(parks) ==
    [i \in DOMAIN parks |->
        [name |-> parks[i].name, lat |-> parks[i].lat, lon |-> parks[i].lon,
         visitors_a |-> parks[i].visitors_a, visitors_b |-> parks[i].visitors_b,
         delta |-> parks[i].visitors_b - parks[i].visitors_a]]

max_abs_delta(parks) ==
    ZeroGuard(SeqMax([i \in DOMAIN parks |-> Abs(parks[i].delta)]))

\* normalized_delta = (park['delta'] / max_abs_delta) * 0.5 + 0.5
normalized_delta(parks, i) ==
    << parks[i].delta + max_abs_delta(parks), 2 * max_abs_delta(parks) >>

\* parks_abs_colors
AbsoluteColoredMutant(parks) ==
    LET m == max_abs_delta(parks)
    IN  [i \in DOMAIN parks |->
            [name |-> parks[i].name, lat |-> parks[i].lat, lon |-> parks[i].lon,
             visitors_a |-> parks[i].visitors_a, visitors_b |-> parks[i].visitors_b,
             delta |-> parks[i].delta,
             color |-> get_change_color(<< m - parks[i].delta, 2 * m >>)]]
AbsoluteColored(parks) ==
    [i \in DOMAIN parks |->
        [name |-> parks[i].name, lat |-> parks[i].lat, lon |-> parks[i].lon,
         visitors_a |-> parks[i].visitors_a, visitors_b |-> parks[i].visitors_b,
         delta |-> parks[i].delta,
         color |-> get_change_color(normalized_delta(parks, i))]]

\* Step 4 of the change driver, up to the copy generate_map starts with.
AbsoluteColors ==
    /\ pc = "absolute"
    /\ parks_for_analysis' = WithDelta(parks_for_analysis)
    /\ IF max_abs_delta(WithDelta(parks_for_analysis)) = 0
       THEN /\ exception' = "ZeroDivisionError"
            /\ pc' = "crashed"
            /\ UNCHANGED << parks_abs_colors, img, overlay, k, visible_parks, variant >>
       ELSE /\ exception' = exception
            /\ parks_abs_colors' = AbsoluteColored(WithDelta(parks_for_analysis))
            /\ img' = copy(base_map_image, img)
            /\ overlay' = AbsoluteColored(WithDelta(parks_for_analysis))
            /\ k' = 1
            /\ visible_parks' = 0
            /\ variant' = "absolute"
            /\ pc' = "draw"
    /\ UNCHANGED << inputs, function, fetching, printed, saved, parks_pct_colors, base_map_image, rasterized,
                    rounding >>

\* if park['visitors_a'] > 0
HasValidPercentMutant(park) == park.visitors_a >= 0
HasValidPercent(park) == park.visitors_a > 0

\* parks_with_valid_percent; percent_change is the pair <<b - a, a>>.
RECURSIVE ValidPercent(_)
ValidPercent(parks) ==
    IF parks = << >> THEN << >>
    ELSE LET park == Head(parks)
         IN  IF HasValidPercent(park)
             THEN << [name |-> park.name, lat |-> park.lat, lon |-> park.lon,
                      visitors_a |-> park.visitors_a, visitors_b |-> park.visitors_b,
                      delta |-> park.delta,
                      percent_change |-> << park.visitors_b - park.visitors_a,
                                            park.visitors_a >>] >>
                  \o ValidPercent(Tail(parks))
             ELSE ValidPercent(Tail(parks))

\* max(abs(p['percent_change']) ...) as a pair, with the zero guard applied.
max_abs_percent(parks) ==
    LET top == CHOOSE i \in DOMAIN parks : \A j \in DOMAIN parks :
                   Abs(parks[j].percent_change[1]) * parks[i].percent_change[2]
                       <= Abs(parks[i].percent_change[1]) * parks[j].percent_change[2]
        m == Abs(parks[top].percent_change[1])
    IN  << ZeroGuard(m), IF m = 0 THEN 1 ELSE parks[top].percent_change[2] >>

\* normalized_percent = (park['percent_change'] / max_abs_percent) * 0.5 + 0.5
normalized_percent(parks, i) ==
    LET m == max_abs_percent(parks)
        c == parks[i].percent_change
    IN  << c[1] * m[2] + c[2] * m[1], 2 * c[2] * m[1] >>

\* parks_pct_colors
PercentColored(parks) ==
    [i \in DOMAIN parks |->
        [name |-> parks[i].name, lat |-> parks[i].lat, lon |-> parks[i].lon,
         visitors_a |-> parks[i].visitors_a, visitors_b |-> parks[i].visitors_b,
         delta |-> parks[i].delta,
         percent_change |-> parks[i].percent_change,
         color |-> get_change_color(normalized_percent(parks, i))]]

\* Step 5 of the change driver, up to the copy generate_map starts with.
PercentColors ==
    /\ pc = "percent"
    /\ LET parks_with_valid_percent == ValidPercent(parks_for_analysis)
           excluding == IF Len(parks_with_valid_percent) < Len(parks_for_analysis)
                        THEN {"Excluding a park from percent map"} ELSE {}
       IN  IF \E i \in DOMAIN parks_for_analysis :
                  /\ HasValidPercent(parks_for_analysis[i])
                  /\ parks_for_analysis[i].visitors_a = 0
           THEN \* (visitors_b - visitors_a) / visitors_a with visitors_a == 0
                /\ exception' = "ZeroDivisionError"
                /\ pc' = "crashed"
                /\ UNCHANGED << printed, parks_pct_colors, img, overlay, k,
                                visible_parks, variant >>
           ELSE IF parks_with_valid_percent = << >>
           THEN /\ printed' = printed \cup excluding
                        \cup {"WARNING: No parks had valid data for percent change calculation"}
                /\ pc' = "done"
                /\ UNCHANGED << exception, parks_pct_colors, img, overlay, k,
                                visible_parks, variant >>
           ELSE /\ printed' = printed \cup excluding
                /\ IF max_abs_percent(parks_with_valid_percent)[1] = 0
                   THEN /\ exception' = "ZeroDivisionError"
                        /\ pc' = "crashed"
                        /\ UNCHANGED << parks_pct_colors, img, overlay, k,
                                        visible_parks, variant >>
                   ELSE /\ exception' = exception
                        /\ parks_pct_colors' = PercentColored(parks_with_valid_percent)
                        /\ img' = copy(base_map_image, img)
                        /\ overlay' = PercentColored(parks_with_valid_percent)
                        /\ k' = 1
                        /\ visible_parks' = 0
                        /\ variant' = "percent"
                        /\ pc' = "draw"
    /\ UNCHANGED << inputs, function, fetching, saved, parks_for_analysis, parks_abs_colors,
                    base_map_image, rasterized, rounding >>

Next ==
    \/ CheckGeojson
    \/ LoadParkData
    \/ FilterParks
    \/ NormalizeAndColor
    \/ GenerateBaseMap
    \/ DrawPark
    \/ SaveImage
    \/ AbsoluteColors
    \/ PercentColors

Spec == Init /\ [][Next]_vars

\* ------------------------------------------------ the functions on their own
\* The colour scales and the camera rotation called directly, outside a run
\* of main(): the arguments are drawn at the start, each action is one call.

\* Normalised values in twentieths and in sevenths, from below 0 to above 1.
Ts == { << n, d >> : n \in (-MaxOver)..(20 + MaxOver), d \in {7, 20} }

ColorFunctions == {"get_visitor_color", "get_density_color", "get_change_color"}

\* Camera settings and unit vectors of the rotation calls.
Latitudes == { a \in Angles : Abs(a) <= 90 }
RotationCameras ==
    [ lat : Latitudes, lon : {-143, -90, -37, 0, 53, 127, 180},
      roll : {-127, -37, 0, 53, 90}, mn : {0}, md : {1} ]
UnitVectors == { latlon_to_vec(lat, lon) : lat \in Latitudes, lon \in Angles }

Calls ==
    [ fn : ColorFunctions, stage : {"called"}, t : Ts ]
        \cup [ fn : {"rotation"}, stage : {"called"}, cam : RotationCameras, v : UnitVectors ]
        \cup [ fn : {"pixel"}, stage : {"called"}, cam : Cameras, row : Rows, col : Rows ]

FunctionInit ==
    /\ driver = "popularity"
    /\ geojson_exists = TRUE
    /\ park_file = "ok"
    /\ all_parks_data = << >>
    /\ camera = [lat |-> 0, lon |-> 0, roll |-> 0, mn |-> 0, md |-> 1]
    /\ world = "no_polygons"
    /\ pc = "done"
    /\ exception = "none"
    /\ printed = {}
    /\ saved = {}
    /\ rasterized = FALSE
    /\ parks_for_analysis = << >>
    /\ parks_abs_colors = << >>
    /\ parks_pct_colors = << >>
    /\ base_map_image = NoImage
    /\ img = NoImage
    /\ overlay = << >>
    /\ k = 1
    /\ visible_parks = 0
    /\ variant = "none"
    /\ rounding = 0
    /\ call \in Calls
    /\ result = None
    /\ wikidata = None
    /\ get = NoCall

program == << inputs, pc, exception, printed, saved, lists, drawing, fetching >>

\* return (r, g, b)
CallColor ==
    /\ call.fn \in ColorFunctions
    /\ call.stage = "called"
    /\ result' = CASE call.fn = "get_visitor_color" -> get_visitor_color(call.t)
                   [] call.fn = "get_density_color" -> get_density_color(call.t)
                   [] call.fn = "get_change_color" -> get_change_color(call.t)
    /\ call' = [call EXCEPT !.stage = "returned"]
    /\ UNCHANGED program

\* rotation.apply(v)
CallApply ==
    /\ call.fn = "rotation"
    /\ call.stage = "called"
    /\ result' = rotation_apply(call.cam, call.v)
    /\ call' = [call EXCEPT !.stage = "applied"]
    /\ UNCHANGED program

\* rotation.inv().apply(...) on what rotation.apply returned
CallInverse ==
    /\ call.fn = "rotation"
    /\ call.stage = "applied"
    /\ result' = rotation_inv_apply(call.cam, result)
    /\ call' = [call EXCEPT !.stage = "returned"]
    /\ UNCHANGED program

\* px, py of the overlay for the view coordinates xx[row, col], yy[row, col]
\* that the rasterizer gives the pixel.
CallPixel ==
    /\ call.fn = "pixel"
    /\ call.stage = "called"
    /\ LET x == linspace(call.cam, call.col)
           y == << -linspace(call.cam, call.row)[1], linspace(call.cam, call.row)[2] >>
       IN  result' = << PixelCoord(call.cam, x[1], x[2]), PixelCoord(call.cam, -y[1], y[2]) >>
    /\ call' = [call EXCEPT !.stage = "returned"]
    /\ UNCHANGED program

FunctionNext ==
    \/ CallColor
    \/ CallApply
    \/ CallInverse
    \/ CallPixel

FunctionSpec == FunctionInit /\ [][FunctionNext]_vars

\* ------------------------------------------------- the camera scenarios
\* Runs of the three drivers with roll 0 and margin 0 under every camera
\* centre of the nominal degrees, over a park at the centre and one at its
\* antipode, or over the three parks at (0, 0), (0, 90) and (90, 0).
ScenarioCameras == [ lat : Latitudes, lon : Angles, roll : {0}, mn : {0}, md : {1} ]

ScenarioPark(name, lat, lon, a, b) ==
    [ name |-> name, coordinates |-> [latitude |-> lat, longitude |-> lon],
      visitor_history |-> ("2010" :> a) @@ ("2019" :> b) @@ ("2020" :> a),
      area |-> <<1>> ]

ScenarioLists(cam) ==
    LET centre == ScenarioPark("Centre", cam.lat, cam.lon, 8, 64)
        antipode == ScenarioPark("Antipode", -cam.lat,
                                 IF cam.lon > 0 THEN cam.lon - 180 ELSE cam.lon + 180, 64, 8)
    IN  { << centre, antipode >>,
          << antipode, centre >>,
          << ScenarioPark("Park 1", 0, 0, 8, 8),
             ScenarioPark("Park 2", 0, 90, 64, 8),
             ScenarioPark("Park 3", 90, 0, 27, 64) >> }

ScenarioInit ==
    /\ driver \in Drivers
    /\ geojson_exists = TRUE
    /\ park_file = "ok"
    /\ camera \in ScenarioCameras
    /\ all_parks_data \in ScenarioLists(camera)
    /\ world = "no_polygons"
    /\ pc = "start"
    /\ exception = "none"
    /\ printed = {}
    /\ saved = {}
    /\ rasterized = FALSE
    /\ parks_for_analysis = << >>
    /\ parks_abs_colors = << >>
    /\ parks_pct_colors = << >>
    /\ base_map_image = NoImage
    /\ img = NoImage
    /\ overlay = << >>
    /\ k = 1
    /\ visible_parks = 0
    /\ variant = "none"
    /\ rounding = 0
    /\ call = [fn |-> "none", stage |-> "idle"]
    /\ result = None
    /\ wikidata = None
    /\ get = NoCall

ScenarioSpec == ScenarioInit /\ [][Next]_vars

\* ------------------------------------------------ fetching the park data
\* USNP_get_data.py builds USNP_data.json, the file the drivers load.  The
\* input list holds one park here; the entity Wikidata holds for it and the
\* outcome of every request are the environment's choice.

PARK == [name |-> "Acadia", id |-> "Q337396"]

\* A unit URL is held as its '/'-separated parts; "1" is what Wikidata
\* gives a quantity without a unit.
ENTITY_URL == "http://www.wikidata.org/entity"
UnitUrls ==
    { << ENTITY_URL, "Q81292" >>, << ENTITY_URL, "Q35852" >>, << ENTITY_URL, "Q712226" >>,
      << ENTITY_URL, "Q232291" >>, << ENTITY_URL, "Q25343" >>, << ENTITY_URL, "Q857027" >>,
      << "1" >>, None }

\* The English label of each unit entity, None where it has none.
UnitLabels ==
    ("Q81292" :> << "acre" >>) @@ ("Q35852" :> << "hectare" >>)
        @@ ("Q712226" :> << "square kilometre" >>) @@ ("Q232291" :> << "square mile" >>)
        @@ ("Q25343" :> << "square metre" >>) @@ ("Q857027" :> None)

\* The claims of the park entity: the area claim is None or an amount with
\* its unit, and the visitors of 2020 are 8 times the area in acres where
\* the unit is one the table converts (8 times 8 otherwise).
AreaClaims ==
    { None }
        \cup { [amount |-> 8, unit |-> u] :
                 u \in { << ENTITY_URL, "Q81292" >>, << ENTITY_URL, "Q25343" >>,
                         << ENTITY_URL, "Q857027" >>, << "1" >>, None } }
        \cup { [amount |-> 20000, unit |-> << ENTITY_URL, "Q35852" >>],
               [amount |-> 200, unit |-> << ENTITY_URL, "Q712226" >>],
               [amount |-> 1, unit |-> << ENTITY_URL, "Q232291" >>] }

CONVERSION_TO_ACRES ==
    ("acre" :> << 1, 1 >>) @@ ("hectare" :> << 49421, 20000 >>)
        @@ ("square kilometre" :> << 49421, 200 >>) @@ ("square mile" :> << 640, 1 >>)

\* round(n / d, 2), in hundredths.
round2(n, d) == (n \div d) * 100 + (2 * (n % d) * 100 + d) \div (2 * d)

\* area = round(area * CONVERSION_TO_ACRES[area_unit], 2), a whole number
\* of acres for the amounts of AreaClaims.
converted(amount, area_unit) ==
    LET factor == CONVERSION_TO_ACRES[area_unit]
    IN  round2(amount * factor[1], factor[2]) \div 100

AcresOf(claim) ==
    IF claim = None \/ claim.unit = None \/ Len(claim.unit) < 2 THEN 8
    ELSE LET label == UnitLabels[claim.unit[2]]
         IN  IF label # None /\ label[1] \in DOMAIN CONVERSION_TO_ACRES
             THEN converted(claim.amount, label[1]) ELSE 8

ParkEntities ==
    { [claims |-> None] }
        \cup { [claims |-> [visitor_history |-> ("2010" :> 64)
                                @@ ("2019" :> IF AcresOf(a) = 8 THEN 8 ELSE 8 * AcresOf(a))
                                @@ ("2020" :> 8 * AcresOf(a)),
                            coordinates |-> [latitude |-> 0, longitude |-> 0],
                            area |-> a]] : a \in AreaClaims }

\* What the API answers for an entity id: the park's entity or a unit's.
Served(entity) ==
    IF entity = PARK.id THEN wikidata ELSE [label |-> UnitLabels[entity]]

\* for attempt in range(MAX_RETRIES): the loop goes on
InRangeMutant(attempt) == attempt < MAX_RETRIES + 1
InRange(attempt) == attempt < MAX_RETRIES

\* if attempt < MAX_RETRIES - 1: time.sleep(RETRY_DELAY_SECONDS)
ShouldSleepMutant(attempt) == attempt < MAX_RETRIES
ShouldSleep(attempt) == attempt < MAX_RETRIES - 1

Request(outcome) == [event |-> "get", outcome |-> outcome, seconds |-> 0]
Sleep(seconds) == [event |-> "sleep", outcome |-> "", seconds |-> seconds]

Started(entity) == [NoCall EXCEPT !.entity = entity]

\* One pass of the loop of get_wikidata_entity: the request succeeds and
\* its parsed response is returned, or it fails, the loop sleeps unless
\* this was the last attempt, and a loop that has run out returns None.
GetWikidataEntity ==
    /\ pc \in {"get_park", "get_unit"}
    /\ ~get.returned
    /\ InRange(get.attempt)
    /\ \E outcome \in {"ok", "error"} :
          IF outcome = "ok"
          THEN get' = [get EXCEPT !.log = Append(@, Request("ok")),
                                  !.returned = TRUE,
                                  !.value = Served(get.entity)]
          ELSE LET failed == Append(get.log, Request("error"))
                   slept == IF ShouldSleep(get.attempt)
                            THEN Append(failed, Sleep(RETRY_DELAY_SECONDS)) ELSE failed
               IN  get' = [get EXCEPT !.log = slept,
                                      !.attempt = @ + 1,
                                      !.returned = ~InRange(get.attempt + 1)]
    /\ pc' = IF get'.returned
             THEN (IF pc = "get_park" THEN "process_park" ELSE "unit_label")
             ELSE pc
    /\ UNCHANGED << inputs, wikidata, exception, printed, saved, lists, drawing, function >>

\* The lines of process_park after the area's unit is known: the amount is
\* converted when the table has the unit and stored as it is otherwise.
ParkData(claims, label) ==
    LET unit == IF claims.area = None THEN None ELSE label
        known == unit # None /\ unit[1] \in DOMAIN CONVERSION_TO_ACRES
    IN  [name |-> PARK.name, id |-> PARK.id,
         visitor_history |-> claims.visitor_history,
         coordinates |-> claims.coordinates,
         area |-> CASE claims.area = None -> None
                    [] known -> << converted(claims.area.amount, unit[1]) >>
                    [] OTHER -> << claims.area.amount >>,
         area_unit |-> CASE claims.area = None -> None
                         [] known -> << "acre" >>
                         [] unit = None -> << "unknown" >>
                         [] OTHER -> unit]

\* unit_url is set and contains 'http': get_unit_label fetches the unit.
FetchesUnit(claims) ==
    /\ claims.area # None
    /\ claims.area.unit # None
    /\ claims.area.unit[1] = ENTITY_URL

\* main writes {"parks": processed_parks}, which the drivers then load.
WriteOutput(processed_parks) ==
    /\ all_parks_data' = processed_parks
    /\ pc' = "start"
    /\ UNCHANGED << driver, geojson_exists, park_file, camera, world >>

\* process_park once the park's entity has been fetched, up to the call of
\* get_unit_label or, where there is none, to the end of main.
ProcessPark ==
    /\ pc = "process_park"
    /\ IF get.value = None \/ get.value.claims = None
       THEN /\ WriteOutput(<< >>)
            /\ printed' = printed \cup {"FAILED to process the park"}
            /\ get' = get
       ELSE IF FetchesUnit(get.value.claims)
            THEN /\ get' = Started(get.value.claims.area.unit[2])
                 /\ pc' = "get_unit"
                 /\ UNCHANGED << inputs, printed >>
            ELSE /\ WriteOutput(<< ParkData(get.value.claims, None) >>)
                 /\ UNCHANGED << printed, get >>
    /\ UNCHANGED << wikidata, exception, saved, lists, drawing, function >>

\* get_unit_label after its fetch: the English label, the unit id when the
\* entity has no English label, None when the fetch failed.
get_unit_label(unit_id, unit_data) ==
    IF unit_data = None THEN None
    ELSE IF unit_data.label = None THEN << unit_id >> ELSE unit_data.label

\* The rest of process_park and of main once the unit has been fetched.
ConvertArea ==
    /\ pc = "unit_label"
    /\ WriteOutput(<< ParkData(wikidata.claims, get_unit_label(get.entity, get.value)) >>)
    /\ UNCHANGED << fetching, exception, printed, saved, lists, drawing, function >>

FetchInit ==
    /\ driver \in Drivers
    /\ geojson_exists = TRUE
    /\ park_file = "ok"
    /\ all_parks_data = << >>
    /\ camera = [lat |-> 0, lon |-> 0, roll |-> 0, mn |-> 0, md |-> 1]
    /\ world = "no_polygons"
    /\ pc = "get_park"
    /\ exception = "none"
    /\ printed = {}
    /\ saved = {}
    /\ rasterized = FALSE
    /\ parks_for_analysis = << >>
    /\ parks_abs_colors = << >>
    /\ parks_pct_colors = << >>
    /\ base_map_image = NoImage
    /\ img = NoImage
    /\ overlay = << >>
    /\ k = 1
    /\ visible_parks = 0
    /\ variant = "none"
    /\ rounding = 0
    /\ call = [fn |-> "none", stage |-> "idle"]
    /\ result = None
    /\ wikidata \in ParkEntities
    /\ get = Started(PARK.id)

FetchNext ==
    \/ GetWikidataEntity
    \/ ProcessPark
    \/ ConvertArea
    \/ CheckGeojson
    \/ LoadParkData
    \/ FilterParks
    \/ NormalizeAndColor
    \/ GenerateBaseMap
    \/ DrawPark
    \/ SaveImage
    \/ AbsoluteColors
    \/ PercentColors

FetchSpec == FetchInit /\ [][FetchNext]_vars

\* ================================================================ claims
\* The base map as the rasteriser left it: the change driver keeps it in
\* base_map_image, the other two draw on it from k = 1 on.
BaseMapDone ==
    /\ rasterized
    /\ IF driver = "change" THEN base_map_image # NoImage ELSE pc = "draw" /\ k = 1
TheBaseMap == IF driver = "change" THEN base_map_image ELSE img

\* x^2 + y^2 <= 1 for the view coordinates of pixel (row, col), from the
\* definition of the grid: x = vs (2 col - (S-1)) / (S-1), y likewise.
InsideDisk(row, col) ==
    LET n == SUPER_SAMPLED_SIZE - 1
        sq == (2 * col - n) * (2 * col - n) + (2 * row - n) * (2 * row - n)
    IN  camera.md * camera.md * sq
            <= (camera.md - camera.mn) * (camera.md - camera.mn) * n * n

\* C1: after base-map rasterization every pixel inside the unit disk is LAND
\* or OCEAN and every pixel outside it is SPACE.
C1_DiskMembership ==
    BaseMapDone =>
        \A p \in Pixels :
            IF InsideDisk(p[1], p[2])
            THEN TheBaseMap[p] \in {LAND_COLOR, OCEAN_COLOR}
            ELSE TheBaseMap[p] = SPACE_COLOR

C1_Witness ==
    /\ BaseMapDone
    /\ camera.mn > 0
    /\ \E p, q, r \in Pixels :
          /\ TheBaseMap[p] = LAND_COLOR
          /\ TheBaseMap[q] = OCEAN_COLOR
          /\ TheBaseMap[r] = SPACE_COLOR /\ r[1] = 0 /\ 2 * r[2] = SUPER_SAMPLED_SIZE

\* C2 (as claimed): whatever markers have been drawn, every pixel outside
\* the unit disk still has SPACE_COLOR.
C2_OverlayInsideDisk ==
    (pc \in {"draw", "percent", "done"} /\ img # NoImage) =>
        \A p \in Pixels : ~InsideDisk(p[1], p[2]) => img[p] = SPACE_COLOR

\* A step of the drawing loop counts and paints the park exactly when
\* the z of its rotated vector is strictly positive; a park with z <= 0
\* leaves the image and visible_parks as they were.
C3_Step ==
    (pc = "draw" /\ k' = k + 1) =>
        LET park == overlay[k]
            z == Computed(rotation_apply(camera, latlon_to_vec(park.lat, park.lon)),
                          rounding).z
        IN  IF z > 0
            THEN /\ visible_parks' = visible_parks + 1
                 /\ MarkerPixels(camera, park) # {}
                 /\ \A p \in MarkerPixels(camera, park) : img'[p] = park.color
            ELSE /\ visible_parks' = visible_parks
                 /\ img' = img
\* C3: every step of the drawing loop, in every driver, draws and counts the
\* park if and only if its rotated z is strictly positive.
C3_DrawnIffFrontFacing == [][C3_Step]_vars

\* A tangent park (z = 0) has been skipped after a front-facing one was drawn.
C3_Witness ==
    /\ pc = "draw" /\ k = 3
    /\ rotation_apply(camera, latlon_to_vec(overlay[1].lat, overlay[1].lon)).z > 0
    /\ rotation_apply(camera, latlon_to_vec(overlay[2].lat, overlay[2].lon)).z = 0
    /\ rounding = 0
    /\ visible_parks = 1

\* The colours a variant has attached, and the value its code divides by
\* before the zero guard.
Colored(parks) == parks # << >> /\ \A i \in DOMAIN parks : "color" \in DOMAIN parks[i]
Uniform(parks) == \A i, j \in DOMAIN parks : parks[i].color = parks[j].color

VisitorDone == driver = "popularity" /\ Colored(parks_for_analysis)
DensityDone == driver = "density" /\ Colored(parks_for_analysis)
AbsoluteDone == driver = "change" /\ Colored(parks_abs_colors)
PercentDone == driver = "change" /\ Colored(parks_pct_colors)

Field(parks, f) == { parks[i][f] : i \in DOMAIN parks }
Largest(S) == CHOOSE x \in S : \A y \in S : y <= x
Smallest(S) == CHOOSE x \in S : \A y \in S : x <= y

\* The second entry of the densities sorted in descending order.
SortedSecond(parks) ==
    CHOOSE v \in Field(parks, "density") :
        /\ Cardinality({ i \in DOMAIN parks : parks[i].density > v }) <= 1
        /\ Cardinality({ i \in DOMAIN parks : parks[i].density >= v }) >= 2

VisitorRangeZero ==
    Largest(Field(parks_for_analysis, "visitors")) = Smallest(Field(parks_for_analysis, "visitors"))
DensityRangeZero ==
    SortedSecond(parks_for_analysis) = Smallest(Field(parks_for_analysis, "density"))
AbsoluteRangeZero == \A i \in DOMAIN parks_abs_colors : parks_abs_colors[i].delta = 0
PercentRangeZero == \A i \in DOMAIN parks_pct_colors : parks_pct_colors[i].percent_change[1] = 0

\* C4 (as claimed): with a zero divisor no division error occurs and all
\* features of the variant get the same colour.
C4_ZeroRangeUniform ==
    /\ exception # "ZeroDivisionError"
    /\ (VisitorDone /\ VisitorRangeZero) => Uniform(parks_for_analysis)
    /\ (DensityDone /\ DensityRangeZero) => Uniform(parks_for_analysis)
    /\ (AbsoluteDone /\ AbsoluteRangeZero) => Uniform(parks_abs_colors)
    /\ (PercentDone /\ PercentRangeZero) => Uniform(parks_pct_colors)

\* C4 (amended): with a zero divisor no division error occurs and all
\* features of the variant get the same colour, except that in the density
\* variant the features holding the largest density are black and all the
\* others share one colour.
C4_ZeroRangeUniformButMax ==
    /\ exception # "ZeroDivisionError"
    /\ (VisitorDone /\ VisitorRangeZero) =>
          /\ Uniform(parks_for_analysis)
          /\ parks_for_analysis[1].color = << 255, 255, 0 >>
    /\ (DensityDone /\ DensityRangeZero) =>
          \A i, j \in DOMAIN parks_for_analysis :
              LET top == Largest(Field(parks_for_analysis, "density"))
                  pi == parks_for_analysis[i]
                  pj == parks_for_analysis[j]
              IN  /\ pi.density = top => pi.color = << 0, 0, 0 >>
                  /\ (pi.density # top /\ pj.density # top) => pi.color = pj.color
    /\ (AbsoluteDone /\ AbsoluteRangeZero) =>
          /\ Uniform(parks_abs_colors)
          /\ parks_abs_colors[1].color = << 232, 232, 232 >>
    /\ (PercentDone /\ PercentRangeZero) =>
          /\ Uniform(parks_pct_colors)
          /\ parks_pct_colors[1].color = << 232, 232, 232 >>

\* A density run whose divisor is zero while the largest density stands apart.
C4_Witness ==
    /\ DensityDone /\ DensityRangeZero
    /\ \E i, j \in DOMAIN parks_for_analysis :
          /\ parks_for_analysis[i].color = << 0, 0, 0 >>
          /\ parks_for_analysis[j].color = << 0, 102, 255 >>

\* C5 (as claimed): for a non-empty eligible set normalisation and colouring
\* raise nothing, and once past them every feature has a colour.
C5_NormalizationNeverFatal ==
    /\ exception \notin {"IndexError", "ZeroDivisionError"}
    /\ (pc \in {"basemap", "draw"} /\ driver # "change") => Colored(parks_for_analysis)

\* C6 (as claimed): in the density variant exactly one feature is black.
C6_SingleBlackMaximum ==
    DensityDone =>
        Cardinality({ i \in DOMAIN parks_for_analysis :
                        parks_for_analysis[i].color = << 0, 0, 0 >> }) = 1

\* C7: every feature below the largest density has the colour
\* get_density_color((d - min) / (second - min)), the divisor being 1 when
\* second = min; at d = second > min that is (46, 8, 84), at d = min it is
\* (0, 102, 255).
C7_SecondLargestScale ==
    DensityDone =>
        LET parks == parks_for_analysis
            top == Largest(Field(parks, "density"))
            low == Smallest(Field(parks, "density"))
            second == SortedSecond(parks)
            range == IF second = low THEN 1 ELSE second - low
        IN  \A i \in DOMAIN parks :
                parks[i].density # top =>
                    /\ parks[i].color = get_density_color(<< parks[i].density - low, range >>)
                    /\ (parks[i].density = second /\ second > low)
                           => parks[i].color = << 46, 8, 84 >>
                    /\ parks[i].density = low => parks[i].color = << 0, 102, 255 >>

\* Three distinct densities: the middle one holds the second-largest value.
C7_Witness ==
    /\ DensityDone
    /\ \E i, j, m \in DOMAIN parks_for_analysis :
          /\ parks_for_analysis[i].color = << 0, 0, 0 >>
          /\ parks_for_analysis[j].color = << 46, 8, 84 >>
          /\ parks_for_analysis[m].color = << 0, 102, 255 >>

\* Two records of the change driver stand for the same input park.
SamePark(a, b) ==
    /\ a.name = b.name /\ a.lat = b.lat /\ a.lon = b.lon
    /\ a.visitors_a = b.visitors_a /\ a.visitors_b = b.visitors_b

PercentWithinAbsolute ==
    \A j \in DOMAIN parks_pct_colors :
        \E i \in DOMAIN parks_abs_colors : SamePark(parks_pct_colors[j], parks_abs_colors[i])

\* Building the percent-change set raises nothing and leaves
\* parks_for_analysis and the absolute-change colours as they were; a park
\* whose YEAR_A count is not positive is absent from it and still coloured in
\* the absolute-change set; the percent set is a subset of the absolute set.
C8_Step ==
    /\ PercentWithinAbsolute'
    /\ (pc = "percent" /\ pc' # "percent") =>
          /\ exception' = exception
          /\ parks_for_analysis' = parks_for_analysis
          /\ parks_abs_colors' = parks_abs_colors
          /\ \A i \in DOMAIN parks_for_analysis :
                parks_for_analysis[i].visitors_a <= 0 =>
                    /\ \A j \in DOMAIN parks_pct_colors' :
                          ~SamePark(parks_pct_colors'[j], parks_for_analysis[i])
                    /\ SamePark(parks_abs_colors'[i], parks_for_analysis[i])
                    /\ "color" \in DOMAIN parks_abs_colors'[i]
\* C8: every step keeps the percent set within the absolute set, and the step
\* that builds the percent set excludes locally and changes nothing else.
C8_ExclusionIsLocal == [][C8_Step]_vars

\* The percent map is being drawn without a park that the absolute map has.
C8_Witness ==
    /\ pc = "draw" /\ variant = "percent"
    /\ parks_pct_colors # << >>
    /\ \E i \in DOMAIN parks_for_analysis :
          /\ parks_for_analysis[i].visitors_a = 0
          /\ "color" \in DOMAIN parks_abs_colors[i]

\* C9 (as claimed): a park that has the required data and no coordinates
\* raises nothing; filtering ends with exactly the other eligible parks.
C9_MissingCoordinatesDropped ==
    /\ exception # "TypeError"
    /\ pc \in {"color", "basemap"} =>
          Len(parks_for_analysis) =
              Cardinality({ i \in DOMAIN all_parks_data :
                              /\ Eligible(driver, all_parks_data[i])
                              /\ all_parks_data[i].coordinates # None })

ErrorMessages ==
    { "ERROR: Input GeoJSON file not found",
      "ERROR: Park data file not found",
      "ERROR: File is not a valid JSON or is missing the 'parks' key",
      "ERROR: No parks found with the required data",
      "WARNING: No parks had valid data for percent change calculation" }

EligibleEmpty ==
    /\ park_file = "ok"
    /\ \A i \in DOMAIN all_parks_data : ~Eligible(driver, all_parks_data[i])

PercentEmpty ==
    /\ driver = "change"
    /\ "absolute" \in saved
    /\ \A i \in DOMAIN parks_for_analysis : parks_for_analysis[i].visitors_a <= 0

\* C10 (as claimed): a run that ends for want of the polygon file or of an
\* eligible feature has classified no pixel, written no image and printed an
\* error; a percent-change render left without a valid park has classified no
\* pixel, written no percent image and printed the reason.
C10_MissingInputAborts ==
    /\ (pc = "done" /\ (~geojson_exists \/ EligibleEmpty)) =>
          /\ ~rasterized
          /\ saved = {}
          /\ printed \cap ErrorMessages # {}
    /\ (pc = "done" /\ PercentEmpty) =>
          /\ ~rasterized
          /\ "percent" \notin saved
          /\ printed \cap ErrorMessages # {}

\* The park passes the test of the drawing loop under the camera of the run.
FrontFacing(park) ==
    IsVisible(Computed(rotation_apply(camera, latlon_to_vec(park.lat, park.lon)), rounding))

\* The markers of the parks of the overlay drawn so far (none for a park
\* that fails the test), and the parks whose marker covers pixel p.
Markers ==
    [ i \in 1..(k - 1) |->
        IF FrontFacing(overlay[i]) THEN MarkerPixels(camera, overlay[i]) ELSE {} ]
Covering(m, p) == { i \in DOMAIN m : p \in m[i] }

\* C11: the base map image, once rasterized, stays what the rasterizer made
\* (so it is unchanged after the absolute-change map), and every pixel of the
\* percent-change image is a base-map pixel or has the colour of a
\* percent-change marker drawn over it.
C11_NoSharedCanvas ==
    /\ base_map_image \in {NoImage, BaseMap(camera, world)}
    /\ ("absolute" \in saved) => base_map_image = BaseMap(camera, world)
    /\ (variant = "percent" /\ pc \in {"draw", "done"}) =>
          /\ overlay = parks_pct_colors
          /\ LET m == Markers
             IN  \A p \in Pixels :
                     \/ img[p] = base_map_image[p]
                     \/ \E i \in Covering(m, p) : img[p] = overlay[i].color

\* The percent-change map is saved, and a pixel under a marker of the
\* absolute-change map holds another colour in it.
C11_Witness ==
    /\ variant = "percent" /\ pc = "done" /\ "percent" \in saved
    /\ \E i \in DOMAIN parks_abs_colors :
          /\ FrontFacing(parks_abs_colors[i])
          /\ \E p \in MarkerPixels(camera, parks_abs_colors[i]) :
                /\ parks_abs_colors[i].color # base_map_image[p]
                /\ img[p] # parks_abs_colors[i].color

\* The names of the input parks the variant being drawn keeps, in input order.
RECURSIVE KeptNames(_)
KeptNames(parks) ==
    IF parks = << >> THEN << >>
    ELSE LET park == Head(parks)
             kept == /\ Eligible(driver, park)
                     /\ variant = "percent" => park.visitor_history[YEAR_A] > 0
         IN  (IF kept THEN << park.name >> ELSE << >>) \o KeptNames(Tail(parks))

Returned(fn) == call.fn = fn /\ call.stage = "returned"

\* C13: get_visitor_color gives (255,255,0) at 0, (255,0,0) at 0.7 and
\* (139,0,0) at 1; r = 255 and b = 0 up to 0.7, g = 0 and b = 0 above it.
C13_VisitorScale ==
    Returned("get_visitor_color") =>
        LET t == call.t
        IN  /\ t[1] = 0 => result = << 255, 255, 0 >>
            /\ 10 * t[1] = 7 * t[2] => result = << 255, 0, 0 >>
            /\ t[1] = t[2] => result = << 139, 0, 0 >>
            /\ 10 * t[1] <= 7 * t[2] => result[1] = 255 /\ result[3] = 0
            /\ 10 * t[1] > 7 * t[2] => result[2] = 0 /\ result[3] = 0

C13_Witness ==
    /\ Returned("get_visitor_color")
    /\ call.t = << 20, 20 >>
    /\ result = << 139, 0, 0 >>

\* C14: get_density_color gives (0,102,255) at 0 and (46,8,84) at 1, the
\* colour of 0 below 0 and the colour of 1 above 1, and between them
\* r = 46 t, g = 102 - 94 t, b = 255 - 171 t truncated to integers.
C14_DensityScale ==
    Returned("get_density_color") =>
        LET t == call.t
        IN  /\ t[1] <= 0 => result = << 0, 102, 255 >>
            /\ t[1] >= t[2] => result = << 46, 8, 84 >>
            /\ (0 <= t[1] /\ t[1] <= t[2]) =>
                  /\ result[1] = (46 * t[1]) \div t[2]
                  /\ result[2] = (102 * t[2] - 94 * t[1]) \div t[2]
                  /\ result[3] = (255 * t[2] - 171 * t[1]) \div t[2]

C14_Witness ==
    /\ Returned("get_density_color")
    /\ call.t[1] > call.t[2]
    /\ result = << 46, 8, 84 >>

\* C15: get_change_color gives (204,0,0) at 0, (232,232,232) at 0.5 and
\* (107,44,145) at 1, and at 0.5 the formula of either branch gives
\* (232,232,232).
C15_ChangeScale ==
    Returned("get_change_color") =>
        LET t == call.t
        IN  /\ t[1] = 0 => result = << 204, 0, 0 >>
            /\ t[1] = t[2] => result = << 107, 44, 145 >>
            /\ 2 * t[1] = t[2] =>
                  /\ result = << 232, 232, 232 >>
                  /\ negative_side(t) = << 232, 232, 232 >>
                  /\ positive_side(t) = << 232, 232, 232 >>

C15_Witness ==
    /\ Returned("get_change_color")
    /\ call.t = << 10, 20 >>
    /\ result = << 232, 232, 232 >>

\* C16 (as claimed): each colour function returns its colour of 0 for an
\* input below 0 and its colour of 1 for an input above 1, and every
\* component it returns lies in 0..255.
C16_AllClamp ==
    \A fn \in ColorFunctions :
        Returned(fn) =>
            LET t == call.t
                at0 == CASE fn = "get_visitor_color" -> << 255, 255, 0 >>
                         [] fn = "get_density_color" -> << 0, 102, 255 >>
                         [] fn = "get_change_color" -> << 204, 0, 0 >>
                at1 == CASE fn = "get_visitor_color" -> << 139, 0, 0 >>
                         [] fn = "get_density_color" -> << 46, 8, 84 >>
                         [] fn = "get_change_color" -> << 107, 44, 145 >>
            IN  /\ t[1] < 0 => result = at0
                /\ t[1] > t[2] => result = at1
                /\ \A c \in 1..3 : result[c] \in 0..255

\* C19: rotation.inv().apply(rotation.apply(v)) is v, for every camera
\* (centre latitude, centre longitude, roll) and unit vector v of the calls.
C19_InverseLaw ==
    (call.fn = "rotation" /\ call.stage = "returned") =>
        result = Reduced(call.v[1], call.v[2], call.v[3], Unit)

\* A round trip under a camera that is aimed off the axis and rolled, through
\* a vector that the rotation moves.
C19_Witness ==
    /\ call.fn = "rotation" /\ call.stage = "returned"
    /\ call.cam.lat = 37 /\ call.cam.lon = 53 /\ call.cam.roll = -37
    /\ call.v = latlon_to_vec(-53, 143)
    /\ rotation_apply(call.cam, call.v) # result
    /\ result = Reduced(call.v[1], call.v[2], call.v[3], Unit)

\* The exact rotated vector of a park under the camera of the run, and the
\* viewing axis and its opposite in lowest terms.
Rotated(park) == rotation_apply(camera, latlon_to_vec(park.lat, park.lon))
Axis == [x |-> 0, y |-> 0, z |-> 1, den |-> 1]
Behind == [x |-> 0, y |-> 0, z |-> -1, den |-> 1]

AtCentre(park) ==
    latlon_to_vec(park.lat, park.lon) = latlon_to_vec(camera.lat, camera.lon)
AtAntipode(park) ==
    LET c == latlon_to_vec(camera.lat, camera.lon)
    IN  latlon_to_vec(park.lat, park.lon) = << -c[1], -c[2], -c[3] >>

\* The marker of a park whose centre is at (S/2, S/2).
CentredMarker ==
    EllipsePixels((FixedPoint * SUPER_SAMPLED_SIZE) \div 2,
                  (FixedPoint * SUPER_SAMPLED_SIZE) \div 2,
                  park_pixel_radius(camera))

\* A step of the drawing loop, under a camera with roll 0 and margin 0, on a
\* park at the camera centre or at its antipode.
C17_Step ==
    (pc = "draw" /\ k' = k + 1 /\ camera.roll = 0 /\ camera.mn = 0) =>
        LET park == overlay[k]
        IN  /\ AtCentre(park) =>
                  /\ Rotated(park) = Axis
                  /\ visible_parks' = visible_parks + 1
                  /\ CentredMarker # {}
                  /\ \A p \in Pixels :
                        img'[p] = IF p \in CentredMarker THEN park.color ELSE img[p]
            /\ AtAntipode(park) =>
                  /\ Rotated(park) = Behind
                  /\ visible_parks' = visible_parks
                  /\ img' = img
\* C17: with roll 0 and margin 0, under every camera centre, the drawing loop
\* finds a park at the centre on the viewing axis (0,0,1) and draws it centred
\* at (S/2, S/2), and finds a park at the antipode at z < 0 and does not draw
\* it.
C17_CentreAndAntipode == [][C17_Step]_vars

\* Under a camera aimed away from the equator and the prime meridian the
\* park at the centre is drawn and the one at the antipode is not.
C17_Witness ==
    /\ pc = "draw" /\ k = 3 /\ Len(overlay) = 2
    /\ camera.lat = -53 /\ camera.lon = 127
    /\ AtAntipode(overlay[1]) /\ AtCentre(overlay[2])
    /\ visible_parks = 1
    /\ \A p \in CentredMarker : img[p] = overlay[2].color

\* The run of the scenario: camera at (0, 0), roll 0, margin 0, parks at
\* (0, 0), (0, 90), (90, 0), with the drawing loop finished.
ThreeParkScenario ==
    /\ camera = [lat |-> 0, lon |-> 0, roll |-> 0, mn |-> 0, md |-> 1]
    /\ [i \in DOMAIN all_parks_data |->
           << all_parks_data[i].coordinates.latitude,
              all_parks_data[i].coordinates.longitude >>]
          = << <<0, 0>>, <<0, 90>>, <<90, 0>> >>
    /\ pc = "draw" /\ k > Len(overlay)

\* C18 (as claimed): in the scenario park 1 is on the viewing axis and drawn
\* centred at (S/2, S/2), parks 2 and 3 are at z = 0 and culled, and exactly
\* one marker is drawn.
C18_OneMarkerDrawn ==
    ThreeParkScenario =>
        /\ Rotated(overlay[1]) = Axis
        /\ Rotated(overlay[2]).z = 0
        /\ Rotated(overlay[3]).z = 0
        /\ visible_parks = 1
        /\ \A p \in Pixels :
              img[p] = IF p \in CentredMarker THEN overlay[1].color
                       ELSE BaseMap(camera, world)[p]

\* The colour the diverging scale owes a change c / cd (cd > 0) when the
\* largest |change| of the variant is m / md: with t = change / max * 0.5 + 0.5,
\* neutral for no change, the red side for a decrease, the purple side for an
\* increase, and the end colours at the largest |change|.
OnItsSide(c, cd, m, md, color) ==
    LET mm == IF m = 0 THEN 1 ELSE m
        t == << c * md + mm * cd, 2 * mm * cd >>
    IN  /\ c < 0 => /\ 2 * t[1] < t[2]
                    /\ color = negative_side(t)
        /\ c = 0 => color = << 232, 232, 232 >>
        /\ c > 0 => /\ 2 * t[1] > t[2]
                    /\ color = positive_side(t)
        /\ (c < 0 /\ -c * md = m * cd) => color = << 204, 0, 0 >>
        /\ (c > 0 /\ c * md = m * cd) => color = << 107, 44, 145 >>

\* The largest |percent_change| of the percent set, as a pair.
LargestPercent ==
    LET parks == parks_pct_colors
        top == CHOOSE i \in DOMAIN parks : \A j \in DOMAIN parks :
                   Abs(parks[j].percent_change[1]) * parks[i].percent_change[2]
                       <= Abs(parks[i].percent_change[1]) * parks[j].percent_change[2]
    IN  << Abs(parks[top].percent_change[1]), parks[top].percent_change[2] >>

\* C20: in both change variants every feature is coloured on the side of the
\* diverging scale that the sign of its change selects, a zero change is
\* exactly (232,232,232), and a feature at the largest |change| gets
\* (204,0,0) if it decreased and (107,44,145) if it increased.
C20_SignSelectsSide ==
    /\ AbsoluteDone =>
          LET m == Largest({ Abs(parks_abs_colors[i].delta) : i \in DOMAIN parks_abs_colors })
          IN  \A i \in DOMAIN parks_abs_colors :
                  OnItsSide(parks_abs_colors[i].visitors_b - parks_abs_colors[i].visitors_a,
                            1, m, 1, parks_abs_colors[i].color)
    /\ PercentDone =>
          LET m == LargestPercent
          IN  \A i \in DOMAIN parks_pct_colors :
                  OnItsSide(parks_pct_colors[i].visitors_b - parks_pct_colors[i].visitors_a,
                            parks_pct_colors[i].visitors_a, m[1], m[2],
                            parks_pct_colors[i].color)

\* Both variants are coloured, with a decrease, no change and an increase
\* among the features, and a decrease that is not the largest percent change.
C20_Witness ==
    /\ AbsoluteDone /\ PercentDone
    /\ \E i, j, n \in DOMAIN parks_abs_colors :
          /\ parks_abs_colors[i].delta < 0 /\ parks_abs_colors[i].color = << 204, 0, 0 >>
          /\ parks_abs_colors[j].delta = 0 /\ parks_abs_colors[j].color = << 232, 232, 232 >>
          /\ parks_abs_colors[n].delta > 0 /\ parks_abs_colors[n].color = << 107, 44, 145 >>
    /\ \E i, n \in DOMAIN parks_pct_colors :
          /\ parks_pct_colors[i].delta < 0
          /\ parks_pct_colors[i].color \notin {<< 204, 0, 0 >>, << 232, 232, 232 >>}
          /\ parks_pct_colors[n].color = << 107, 44, 145 >>

\* C21 (as claimed): the overlay's px, py computed from the view coordinates
\* of pixel (row, col) are col and row (to within one unit of the fixed
\* point).
C21_PixelMappingInverse ==
    Returned("pixel") =>
        /\ Abs(result[1] - call.col * FixedPoint) <= 1
        /\ Abs(result[2] - call.row * FixedPoint) <= 1

\* t = n / d lies in [0, 1]; every component of a colour lies in 0..255.
InUnitInterval(t) == t[2] > 0 /\ 0 <= t[1] /\ t[1] <= t[2]
IsRGB(color) == \A c \in 1..3 : color[c] \in 0..255

\* C22: every normalised value a driver passes to its colour function is in
\* [0, 1], in the density variant for every feature below the largest
\* density, and every colour attached to a feature has components in 0..255.
C22_NormalizedInUnitInterval ==
    /\ VisitorDone =>
          \A i \in DOMAIN parks_for_analysis :
              LET t == normalized_visitors(parks_for_analysis, i)
              IN  /\ InUnitInterval(t)
                  /\ parks_for_analysis[i].color = get_visitor_color(t)
                  /\ IsRGB(parks_for_analysis[i].color)
    /\ DensityDone =>
          \A i \in DOMAIN parks_for_analysis :
              /\ IsRGB(parks_for_analysis[i].color)
              /\ ~IsActualMax(parks_for_analysis, i) =>
                    LET t == normalized_density(parks_for_analysis, i)
                    IN  /\ InUnitInterval(t)
                        /\ parks_for_analysis[i].color = get_density_color(t)
    /\ AbsoluteDone =>
          \A i \in DOMAIN parks_abs_colors :
              LET t == normalized_delta(parks_abs_colors, i)
              IN  /\ InUnitInterval(t)
                  /\ parks_abs_colors[i].color = get_change_color(t)
                  /\ IsRGB(parks_abs_colors[i].color)
    /\ PercentDone =>
          \A i \in DOMAIN parks_pct_colors :
              LET t == normalized_percent(parks_pct_colors, i)
              IN  /\ InUnitInterval(t)
                  /\ parks_pct_colors[i].color = get_change_color(t)
                  /\ IsRGB(parks_pct_colors[i].color)

\* A percent-change set with a value strictly inside each half of [0, 1] and
\* one at its upper end.
C22_Witness ==
    /\ PercentDone
    /\ \E i, j \in DOMAIN parks_pct_colors :
          LET ti == normalized_percent(parks_pct_colors, i)
              tj == normalized_percent(parks_pct_colors, j)
          IN  /\ 0 < ti[1] /\ 2 * ti[1] < ti[2]
              /\ tj[1] = tj[2]

\* C23: every area the density map divides by is in acres: once the density
\* driver has computed its densities from the fetched records, every record
\* it kept carries area_unit 'acre'.
DensityComputed ==
    /\ driver = "density"
    /\ pc \in {"color", "basemap", "draw", "save", "done", "crashed"}
    /\ parks_for_analysis # << >>
C23_DensityAreasInAcres ==
    DensityComputed =>
        \A i \in DOMAIN all_parks_data :
            ("area_unit" \in DOMAIN all_parks_data[i] /\ Eligible("density", all_parks_data[i]))
                => all_parks_data[i].area_unit = << "acre" >>

\* C24: get_wikidata_entity makes at most MAX_RETRIES requests, returns the
\* response of the first successful one and makes no request after it,
\* returns None exactly when MAX_RETRIES requests have failed, and sleeps
\* RETRY_DELAY_SECONDS after every failed request but the MAX_RETRIES-th.
Gets == { i \in DOMAIN get.log : get.log[i].event = "get" }
Failures == { i \in Gets : get.log[i].outcome = "error" }
Successes == { i \in Gets : get.log[i].outcome = "ok" }
C24_RetryLoop ==
    /\ Cardinality(Gets) <= MAX_RETRIES
    /\ \A i \in Successes :
          /\ i = Len(get.log)
          /\ get.returned
          /\ get.value = Served(get.entity)
    /\ get.returned <=> (Successes # {} \/ Cardinality(Failures) = MAX_RETRIES)
    /\ get.returned =>
          (get.value = None <=> (Successes = {} /\ Cardinality(Failures) = MAX_RETRIES))
    /\ \A i \in Failures :
          IF Cardinality({ j \in Failures : j <= i }) < MAX_RETRIES
          THEN i < Len(get.log) /\ get.log[i + 1] = Sleep(RETRY_DELAY_SECONDS)
          ELSE i = Len(get.log)
    /\ \A i \in DOMAIN get.log :
          get.log[i].event = "sleep" => (i - 1) \in Failures
C24_Witness ==
    /\ get.returned
    /\ get.value = None
    /\ Cardinality(Failures) = MAX_RETRIES
    /\ Len(get.log) = 2 * MAX_RETRIES - 1

====
